---- MODULE Spec2Model ----
(***************************************************************************)
(* A model of the two CPU cores of the chips repository:                   *)
(*   src/chips/z80.h    Z80 core (fetch / read / write machine cycles,     *)
(*                      the opcode decoder, the 8-bit ALU helpers)         *)
(*   src/chips/m6502.h  M6502 pin macros, init and reset                   *)
(*                                                                         *)
(* The Z80 core calls the host's tick callback once per clock cycle.  The  *)
(* model has one action per callback invocation: the action is the return  *)
(* of the callback (the host may have driven DATA) followed by the code    *)
(* that runs up to the next callback invocation, so the state in which an  *)
(* action is enabled is the state the callback sees.                       *)
(***************************************************************************)
EXTENDS Integers, Sequences, FiniteSets, TLC

VARIABLES
    cpu,     \* the z80 struct (src/chips/z80.h:70-99)
    pc,      \* where z80_step stands: "idle" or the tick it is about to issue
    op,      \* the local 'op' of _z80_op (the opcode being executed)
    ret,     \* the value the last z80_step returned
    seen,    \* CTRL/ADDR pins the callback saw at each tick of the current step
    pre,     \* the z80 struct as it was when the current step was entered
    nsteps,  \* number of z80_step calls begun so far
    run,     \* last z80_run call: requested ticks and returned value
    alu,     \* last ALU helper applied: its name and operand
    m,       \* the m6502_t struct (src/chips/m6502.h:109-117)
    mpc,     \* where m6502_reset stands
    mlog,    \* pin values m6502_reset passed to the tick callback, in order
    pins,    \* a 64-bit pin value the M6502 pin macros are applied to
    pinop,   \* last pin macro applied, with its arguments
    r0       \* the value of R in the z80 struct the host started from

vars == <<cpu, pc, op, ret, seen, pre, nsteps, run, alu, m, mpc, mlog, pins, pinop, r0>>

(***************************************************************************)
(* Bounds of the model.                                                    *)
(***************************************************************************)
\* z80_step calls per behaviour
MaxSteps == 2

\* uint8_t values
Byte == 0..255

(***************************************************************************)
(* C integer operators on unsigned values (&, |, ^).                       *)
(***************************************************************************)
RECURSIVE BitAnd(_, _)
BitAnd(a, b) ==
    IF a = 0 \/ b = 0 THEN 0
    ELSE (a % 2) * (b % 2) + 2 * BitAnd(a \div 2, b \div 2)

RECURSIVE BitOr(_, _)
BitOr(a, b) ==
    IF a = 0 THEN b
    ELSE IF b = 0 THEN a
    ELSE (IF a % 2 = 1 \/ b % 2 = 1 THEN 1 ELSE 0) + 2 * BitOr(a \div 2, b \div 2)

RECURSIVE BitXor(_, _)
BitXor(a, b) ==
    IF a = 0 THEN b
    ELSE IF b = 0 THEN a
    ELSE ((a + b) % 2) + 2 * BitXor(a \div 2, b \div 2)

(***************************************************************************)
(* z80_flags and z80_pins (enum values).                                   *)
(***************************************************************************)
Z80_CF == 1
Z80_NF == 2
Z80_VF == 4
Z80_XF == 8
Z80_HF == 16
Z80_YF == 32
Z80_ZF == 64
Z80_SF == 128

Z80_M1 == 1
Z80_MREQ == 2
Z80_IORQ == 4
Z80_RD == 8
Z80_WR == 16
Z80_RFSH == 32
Z80_HALT == 64
Z80_WAIT == 128
Z80_INT == 256
Z80_NMI == 512
Z80_RESET == 1024
Z80_BUSREQ == 2048
Z80_BUSACK == 4096

(***************************************************************************)
(* The register file.  r8[0..7] is the byte array of the union, in memory  *)
(* order: C, B, E, D, L, H, A, F.  The 16-bit views are the little-endian  *)
(* pairs the member order of the struct is written for.                    *)
(***************************************************************************)
IdxC == 0
IdxB == 1
IdxE == 2
IdxD == 3
IdxL == 4
IdxH == 5
IdxA == 6
IdxF == 7

\* cpu->HL
HL(c) == c.r8[IdxH] * 256 + c.r8[IdxL]

\* cpu->IR
IR(c) == c.I * 256 + c.R

\* mutant of RegIdx: the register code used as the array index, bit 0 not flipped
RegIdx_noflip(code) == code

\* r8[i^1]: the register selected by a 3-bit register code of the opcode
RegIdx(code) == BitXor(code, 1)

\* _ON(m) / z80_on
ON(c, mask) == [c EXCEPT !.CTRL = BitOr(c.CTRL, mask)]

\* _OFF(m) / z80_off (CTRL is uint16_t)
OFF(c, mask) == [c EXCEPT !.CTRL = BitAnd(c.CTRL, 65535 - BitAnd(mask, 65535))]

\* z80_any / z80_all
z80_any(c, mask) == BitAnd(c.CTRL, mask) # 0
z80_all(c, mask) == BitAnd(c.CTRL, mask) = mask

(***************************************************************************)
(* z80_init: memset(cpu, 0, sizeof(z80)).                                  *)
(***************************************************************************)
z80_init ==
    [r8 |-> [i \in 0..7 |-> 0],
     BC_ |-> 0, DE_ |-> 0, HL_ |-> 0, AF_ |-> 0, WZ |-> 0, WZ_ |-> 0,
     IX |-> 0, IY |-> 0, R |-> 0, I |-> 0, SP |-> 0, PC |-> 0,
     CTRL |-> 0, ADDR |-> 0, DATA |-> 0,
     im |-> 0, imm1 |-> FALSE, imm2 |-> FALSE, ticks |-> 0]

(***************************************************************************)
(* The host.  The struct is owned by the host, which loads registers into  *)
(* it before it steps the core; the behaviours start from z80_init's state *)
(* or from one of two loaded register files.  In the callback the host     *)
(* drives DATA: a memory always answers a read strobe; on the other ticks  *)
(* it may leave DATA alone or drive it.                                    *)
(***************************************************************************)
HostLoadedA ==
    [z80_init EXCEPT
        !.r8 = [i \in 0..7 |-> CASE i = IdxB -> 17 [] i = IdxC -> 34
                                  [] i = IdxD -> 51 [] i = IdxE -> 68
                                  [] i = IdxH -> 85 [] i = IdxL -> 102
                                  [] i = IdxA -> 119 [] OTHER -> 215],
        !.BC_ = 4660, !.DE_ = 22136, !.HL_ = 39612, !.AF_ = 57072,
        !.WZ = 258, !.WZ_ = 772, !.IX = 32768, !.IY = 16384,
        !.R = 127, !.I = 60, !.SP = 65520, !.PC = 256,
        !.DATA = 62, !.ADDR = 257, !.im = 1, !.imm1 = TRUE, !.imm2 = TRUE,
        !.ticks = 7]

HostLoadedB ==
    [z80_init EXCEPT
        !.r8 = [i \in 0..7 |-> CASE i = IdxA -> 255 [] i = IdxF -> 1
                                  [] i = IdxH -> 255 [] i = IdxL -> 255
                                  [] OTHER -> 128 + i],
        !.R = 255, !.I = 255, !.SP = 0, !.PC = 65535,
        !.DATA = 118, !.ADDR = 65535, !.im = 2, !.imm1 = FALSE, !.imm2 = TRUE,
        !.ticks = 4]

InitCpus == {z80_init, HostLoadedA, HostLoadedB}

\* bytes the host's memory holds as data
HostBytes == {165, 90}

\* opcodes of the program after its first instruction: NOP, LD B,C, LD A,n
FollowOps == {0, 65, 62}

\* opcodes the host's memory may hold at the n-th instruction fetched
OpcodeBytes(n) == IF n <= 1 THEN Byte ELSE FollowOps

\* pin arguments the host passes to z80_on / z80_off
PinArgs ==
    {Z80_INT, Z80_NMI, Z80_HALT + Z80_WAIT + Z80_RESET + Z80_BUSREQ + Z80_BUSACK}

\* DATA values the callback may return with, given the pins it was called with
HostData(c, n) ==
    IF z80_all(c, Z80_M1 + Z80_MREQ + Z80_RD) THEN OpcodeBytes(n)
    ELSE IF z80_all(c, Z80_MREQ + Z80_RD) THEN HostBytes
    ELSE {c.DATA} \cup HostBytes

(***************************************************************************)
(* _TICK(): cpu->tick(cpu) returned with DATA = d, then cpu->ticks++.      *)
(* ticks is restarted by every step and a step issues at most 7 ticks, so  *)
(* the uint32_t never wraps.                                               *)
(***************************************************************************)
TICK(c, d) == [c EXCEPT !.DATA = d, !.ticks = c.ticks + 1]

(***************************************************************************)
(* _z80_fetch, cut at its four _TICK() calls.                              *)
(***************************************************************************)
\* mutant of z80_step_enter: the tick counter is not restarted
z80_step_enter_keep(c) == c

\* z80_step: cpu->ticks = 0
z80_step_enter(c) == [c EXCEPT !.ticks = 0]

\* T1: _ON(Z80_M1); cpu->ADDR = cpu->PC++
fetch_T1(c) ==
    LET c1 == ON(c, Z80_M1)
    IN  [c1 EXCEPT !.ADDR = c1.PC, !.PC = (c1.PC + 1) % 65536]

\* T2: _ON(Z80_MREQ|Z80_RD)
fetch_T2(c) == ON(c, Z80_MREQ + Z80_RD)

\* mutant of update_R: all eight bits of R count
update_R_8bit(c) == [c EXCEPT !.R = (c.R + 1) % 256]

\* mutant of update_R: bit 7 of R is dropped
update_R_drop7(c) == [c EXCEPT !.R = (c.R + 1) % 128]

\* cpu->R = (cpu->R&0x80)|((cpu->R+1)&0x7F)
update_R(c) == [c EXCEPT !.R = BitOr(BitAnd(c.R, 128), BitAnd(c.R + 1, 127))]

\* mutant of fetch_T3: the refresh address is taken before R is counted on
fetch_T3_staleR(c) ==
    LET c1 == update_R(c)
        c2 == OFF(c1, Z80_M1 + Z80_MREQ + Z80_RD)
        c3 == ON(c2, Z80_RFSH)
    IN  [c3 EXCEPT !.ADDR = IR(c)]

\* T3: update R; _OFF(Z80_M1|Z80_MREQ|Z80_RD); _ON(Z80_RFSH); cpu->ADDR = cpu->IR
fetch_T3(c) ==
    LET c1 == update_R(c)
        c2 == OFF(c1, Z80_M1 + Z80_MREQ + Z80_RD)
        c3 == ON(c2, Z80_RFSH)
    IN  [c3 EXCEPT !.ADDR = IR(c3)]

\* T4: _ON(Z80_MREQ)
fetch_T4(c) == ON(c, Z80_MREQ)

\* mutant of fetch_end: MREQ is left active after T4
fetch_end_keep(c) == OFF(c, Z80_RFSH)

\* after T4: _OFF(Z80_RFSH|Z80_MREQ)
fetch_end(c) == OFF(c, Z80_RFSH + Z80_MREQ)

(***************************************************************************)
(* _z80_read and _z80_write, cut at their three _TICK() calls.             *)
(***************************************************************************)
\* mutant of read_T3: MREQ|RD stay active for the third tick
read_T3_keep(c) == c

\* mutant of write_T2: the data byte is not put on DATA
write_T2_nodata(c, data) == ON(c, Z80_MREQ + Z80_WR)

\* mutant of write_T2: RD is activated along with WR
write_T2_rd(c, data) == [ON(c, Z80_MREQ + Z80_WR + Z80_RD) EXCEPT !.DATA = data]

read_T1(c, addr) == [c EXCEPT !.ADDR = addr]
read_T2(c) == ON(c, Z80_MREQ + Z80_RD)
read_T3(c) == OFF(c, Z80_MREQ + Z80_RD)

write_T1(c, addr) == [c EXCEPT !.ADDR = addr]
write_T2(c, data) == [ON(c, Z80_MREQ + Z80_WR) EXCEPT !.DATA = data]
write_T3(c) == OFF(c, Z80_MREQ + Z80_WR)

(***************************************************************************)
(* _z80_op: the bit groups of the opcode and the decoder.                  *)
(***************************************************************************)
OpX(o) == o \div 64
OpY(o) == (o \div 8) % 8
OpZ(o) == o % 8

\* mutant of IsWriteOp: 0x76 is not taken out before the LD (HL),r handler
IsWriteOp_any(o) == OpX(o) = 1 /\ OpY(o) = 6

\* the opcodes whose handler is _WRITE(cpu->HL, cpu->r8[z^1])
IsWriteOp(o) == OpX(o) = 1 /\ OpY(o) = 6 /\ OpZ(o) # 6

\* the opcodes whose handler is _READ(cpu->HL); cpu->r8[y^1] = cpu->DATA
IsReadHLOp(o) == OpX(o) = 1 /\ OpY(o) # 6 /\ OpZ(o) = 6

\* the opcodes whose handler is cpu->r8[y^1] = cpu->r8[z^1]
IsLdRROp(o) == OpX(o) = 1 /\ OpY(o) # 6 /\ OpZ(o) # 6

\* the opcodes whose handler is _READ(cpu->PC++); cpu->r8[y^1] = cpu->DATA
IsReadImmOp(o) == OpX(o) = 0 /\ OpZ(o) = 6 /\ OpY(o) # 6

\* LD r,r: cpu->r8[y^1] = cpu->r8[z^1]
ld_r_r(c, o) == [c EXCEPT !.r8[RegIdx(OpY(o))] = c.r8[RegIdx(OpZ(o))]]

\* mutant of ld_r_data: the register code indexes r8 without the flip
ld_r_data_noflip(c, o) == [c EXCEPT !.r8[OpY(o)] = c.DATA]

\* cpu->r8[y^1] = cpu->DATA (after _READ)
ld_r_data(c, o) == [c EXCEPT !.r8[RegIdx(OpY(o))] = c.DATA]

\* _z80_op up to its first _TICK() (or to its end when it issues none)
z80_op(c, o) ==
    IF IsWriteOp(o) THEN write_T1(c, HL(c))
    ELSE IF IsReadHLOp(o) THEN read_T1(c, HL(c))
    ELSE IF IsLdRROp(o) THEN ld_r_r(c, o)
    ELSE IF IsReadImmOp(o)
         THEN [read_T1(c, c.PC) EXCEPT !.PC = (c.PC + 1) % 65536]
    ELSE c

\* where z80_step stands after z80_op(c, o)
z80_op_next(o) ==
    IF IsWriteOp(o) THEN "W1"
    ELSE IF IsReadHLOp(o) \/ IsReadImmOp(o) THEN "R1"
    ELSE "idle"

\* what the step keeps of the struct at its entry: registers and control pins
Snapshot(c) == [c EXCEPT !.ADDR = 0, !.DATA = 0, !.ticks = 0]

\* what the callback is shown at a tick
Pins(c) == [ctrl |-> c.CTRL, addr |-> c.ADDR]

(***************************************************************************)
(* Values of the variables a specification does not use.                   *)
(***************************************************************************)
NoOp == -1
NoRun == [req |-> 0, ret |-> 0]
NoAlu == [fn |-> "none", val |-> 0]

Z80Idle ==
    /\ pc = "idle"
    /\ op = NoOp
    /\ ret = 0
    /\ seen = << >>
    /\ nsteps = 0
    /\ run = NoRun
    /\ alu = NoAlu
    /\ r0 = cpu.R

(***************************************************************************)
(* z80_step, one action per tick callback invocation.                      *)
(***************************************************************************)
\* z80_step is entered: ticks = 0 and _z80_fetch up to the T1 tick
z80_step ==
    /\ pc = "idle"
    /\ nsteps < MaxSteps
    /\ pre' = Snapshot(cpu)
    /\ cpu' = fetch_T1(z80_step_enter(cpu))
    /\ pc' = "F1"
    /\ op' = NoOp
    /\ seen' = << >>
    /\ nsteps' = nsteps + 1
    /\ UNCHANGED <<ret, run, alu, m, mpc, mlog, pins, pinop, r0>>

\* the T1 tick of the fetch returns
fetch_tick1 ==
    /\ pc = "F1"
    /\ \E d \in HostData(cpu, nsteps) : cpu' = fetch_T2(TICK(cpu, d))
    /\ seen' = Append(seen, Pins(cpu))
    /\ pc' = "F2"
    /\ UNCHANGED <<op, ret, pre, nsteps, run, alu, m, mpc, mlog, pins, pinop, r0>>

\* the T2 tick of the fetch returns
fetch_tick2 ==
    /\ pc = "F2"
    /\ \E d \in HostData(cpu, nsteps) : cpu' = fetch_T3(TICK(cpu, d))
    /\ seen' = Append(seen, Pins(cpu))
    /\ pc' = "F3"
    /\ UNCHANGED <<op, ret, pre, nsteps, run, alu, m, mpc, mlog, pins, pinop, r0>>

\* the T3 tick of the fetch returns
fetch_tick3 ==
    /\ pc = "F3"
    /\ \E d \in HostData(cpu, nsteps) : cpu' = fetch_T4(TICK(cpu, d))
    /\ seen' = Append(seen, Pins(cpu))
    /\ pc' = "F4"
    /\ UNCHANGED <<op, ret, pre, nsteps, run, alu, m, mpc, mlog, pins, pinop, r0>>

\* the T4 tick of the fetch returns; _z80_op decodes DATA and runs up to
\* its first tick, or to the return of z80_step
fetch_tick4 ==
    /\ pc = "F4"
    /\ \E d \in HostData(cpu, nsteps) :
          LET c == fetch_end(TICK(cpu, d))
              o == c.DATA
          IN  /\ op' = o
              /\ cpu' = z80_op(c, o)
              /\ pc' = z80_op_next(o)
              /\ ret' = IF z80_op_next(o) = "idle" THEN c.ticks ELSE ret
    /\ seen' = Append(seen, Pins(cpu))
    /\ UNCHANGED <<pre, nsteps, run, alu, m, mpc, mlog, pins, pinop, r0>>

\* the T1 tick of _z80_read returns
read_tick1 ==
    /\ pc = "R1"
    /\ \E d \in HostData(cpu, nsteps) : cpu' = read_T2(TICK(cpu, d))
    /\ seen' = Append(seen, Pins(cpu))
    /\ pc' = "R2"
    /\ UNCHANGED <<op, ret, pre, nsteps, run, alu, m, mpc, mlog, pins, pinop, r0>>

\* the T2 tick of _z80_read returns
read_tick2 ==
    /\ pc = "R2"
    /\ \E d \in HostData(cpu, nsteps) : cpu' = read_T3(TICK(cpu, d))
    /\ seen' = Append(seen, Pins(cpu))
    /\ pc' = "R3"
    /\ UNCHANGED <<op, ret, pre, nsteps, run, alu, m, mpc, mlog, pins, pinop, r0>>

\* the T3 tick of _z80_read returns; the register is loaded and z80_step returns
read_tick3 ==
    /\ pc = "R3"
    /\ \E d \in HostData(cpu, nsteps) :
          LET c == ld_r_data(TICK(cpu, d), op)
          IN  /\ cpu' = c
              /\ ret' = c.ticks
    /\ seen' = Append(seen, Pins(cpu))
    /\ pc' = "idle"
    /\ UNCHANGED <<op, pre, nsteps, run, alu, m, mpc, mlog, pins, pinop, r0>>

\* the T1 tick of _z80_write returns
write_tick1 ==
    /\ pc = "W1"
    /\ \E d \in HostData(cpu, nsteps) :
          LET c == TICK(cpu, d)
          IN  cpu' = write_T2(c, c.r8[RegIdx(OpZ(op))])
    /\ seen' = Append(seen, Pins(cpu))
    /\ pc' = "W2"
    /\ UNCHANGED <<op, ret, pre, nsteps, run, alu, m, mpc, mlog, pins, pinop, r0>>

\* the T2 tick of _z80_write returns
write_tick2 ==
    /\ pc = "W2"
    /\ \E d \in HostData(cpu, nsteps) : cpu' = write_T3(TICK(cpu, d))
    /\ seen' = Append(seen, Pins(cpu))
    /\ pc' = "W3"
    /\ UNCHANGED <<op, ret, pre, nsteps, run, alu, m, mpc, mlog, pins, pinop, r0>>

\* the T3 tick of _z80_write returns; z80_step returns
write_tick3 ==
    /\ pc = "W3"
    /\ \E d \in HostData(cpu, nsteps) :
          LET c == TICK(cpu, d)
          IN  /\ cpu' = c
              /\ ret' = c.ticks
    /\ seen' = Append(seen, Pins(cpu))
    /\ pc' = "idle"
    /\ UNCHANGED <<op, pre, nsteps, run, alu, m, mpc, mlog, pins, pinop, r0>>

(***************************************************************************)
(* Control pin functions, called by the host between steps.                *)
(***************************************************************************)
z80_on ==
    /\ pc = "idle"
    /\ \E p \in PinArgs : cpu' = ON(cpu, p)
    /\ UNCHANGED <<pc, op, ret, seen, pre, nsteps, run, alu, m, mpc, mlog, pins, pinop, r0>>

z80_off ==
    /\ pc = "idle"
    /\ \E p \in PinArgs : cpu' = OFF(cpu, p)
    /\ UNCHANGED <<pc, op, ret, seen, pre, nsteps, run, alu, m, mpc, mlog, pins, pinop, r0>>

\* z80_run: "FIXME; return 0"
z80_run_result(c, t) == 0

\* tick budgets the host passes to z80_run
MaxRunTicks == 7
RunTicks == 1..MaxRunTicks

z80_run ==
    /\ pc = "idle"
    /\ \E t \in RunTicks : run' = [req |-> t, ret |-> z80_run_result(cpu, t)]
    /\ UNCHANGED <<cpu, pc, op, ret, seen, pre, nsteps, alu, m, mpc, mlog, pins, pinop, r0>>

(***************************************************************************)
(* M6502 pins.  A uint64_t pin value is the set of its one bits (bit       *)
(* positions 0..63); &, | and ~ are intersection, union and complement,    *)
(* << and >> move the positions.                                           *)
(***************************************************************************)
U64 == 0..63

\* the one bits of a non-negative int
Bits(n) == {i \in 0..30 : (n \div (2 ^ i)) % 2 = 1}

\* the number whose one bits are b (b within 0..30)
RECURSIVE Val(_)
Val(b) ==
    IF b = {} THEN 0
    ELSE LET i == CHOOSE j \in b : TRUE IN (2 ^ i) + Val(b \ {i})

Shl(b, k) == {i + k : i \in b} \cap U64
Shr(b, k) == {i - k : i \in {j \in b : j >= k}}
Not64(b) == U64 \ b

\* 0xFFFFULL and 0xFF0000ULL
AddrMask == 0..15
DataMask == 16..23

M6502_RW == {24}
M6502_IRQ == {25}
M6502_NMI == {26}

\* M6502_IF|M6502_XF
M6502_IF == 4
M6502_XF == 32

\* ((uint16_t)(p&0xFFFFULL))
M6502_GET_ADDR(p) == Val((p \cap AddrMask) \cap (0..15))

\* {p=((p&~0xFFFFULL)|(a&0xFFFFULL));}
M6502_SET_ADDR(p, a) == (p \cap Not64(AddrMask)) \cup (Bits(a) \cap AddrMask)

\* ((uint8_t)((p&0xFF0000ULL)>>16))
M6502_GET_DATA(p) == Val(Shr(p \cap DataMask, 16) \cap (0..7))

\* mutant of M6502_SET_DATA: the mask that clears the old data is 0xFFFFFF
M6502_SET_DATA_wide(p, d) ==
    (p \cap Not64(AddrMask \cup DataMask)) \cup (Shl(Bits(d), 16) \cap DataMask)

\* {p=((p&~0xFF0000ULL)|((d<<16)&0xFF0000ULL));}
M6502_SET_DATA(p, d) == (p \cap Not64(DataMask)) \cup (Shl(Bits(d), 16) \cap DataMask)

\* ((ctrl)|((data<<16)&0xFF0000ULL)|(addr&0xFFFFULL))
M6502_MAKE_PINS(ctrl, addr, data) ==
    ctrl \cup (Shl(Bits(data), 16) \cap DataMask) \cup (Bits(addr) \cap AddrMask)

(***************************************************************************)
(* m6502_init and m6502_reset.                                             *)
(***************************************************************************)
m6502_init ==
    [PINS |-> M6502_RW, A |-> 0, X |-> 0, Y |-> 0, S |-> 253,
     P |-> BitOr(M6502_IF, M6502_XF), PC |-> 0,
     irq_taken |-> FALSE, break_mask |-> {}]

\* a struct the core has been running on
M6502Used ==
    [PINS |-> M6502_MAKE_PINS(M6502_IRQ \cup M6502_NMI, 4660, 86),
     A |-> 66, X |-> 1, Y |-> 255, S |-> 0, P |-> 255, PC |-> 4660,
     irq_taken |-> TRUE, break_mask |-> M6502_IRQ]

InitM6502s == {m6502_init, M6502Used}

\* data bytes the host's tick callback returns on the data pins
TickBytes == {0, 1, 2, 127, 128, 252, 253, 255}

\* pin values the host's tick callback returns: a data byte, the other pins
\* all clear or all set
TickReturns ==
    {Shl(Bits(d), 16) \cup j : d \in TickBytes, j \in {{}, Not64(DataMask)}}

\* c->irq_taken = false; c->P = M6502_IF|M6502_XF; c->S = 0xFD; c->PINS = M6502_RW
reset_regs(c) ==
    [c EXCEPT !.irq_taken = FALSE, !.P = BitOr(M6502_IF, M6502_XF),
              !.S = 253, !.PINS = M6502_RW]

\* the pin values m6502_reset passes to its first and second tick call
reset_pins1 == M6502_MAKE_PINS(M6502_RW, 65532, 0)
reset_pins2 == M6502_MAKE_PINS(M6502_RW, 65533, 0)

\* mutant of reset_pc: the vector bytes are assembled the wrong way round
reset_pc_swapped(c, l, h) == [c EXCEPT !.PC = BitOr(l * 256, h) % 65536]

\* c->PC = (h<<8)|l
reset_pc(c, l, h) == [c EXCEPT !.PC = BitOr(h * 256, l) % 65536]

\* m6502_reset is called: the registers are set and the first tick is issued
m6502_reset ==
    /\ mpc \in {"idle", "done"}
    /\ m' = reset_regs(m)
    /\ mlog' = << >>
    /\ mpc' = "V1"
    /\ UNCHANGED <<cpu, pc, op, ret, seen, pre, nsteps, run, alu, pins, pinop, r0>>

\* the tick for the low byte of the vector returns; the second is issued
reset_tick1 ==
    /\ mpc = "V1"
    /\ \E r \in TickReturns : mlog' = Append(mlog, [out |-> reset_pins1, in |-> r])
    /\ mpc' = "V2"
    /\ UNCHANGED <<cpu, pc, op, ret, seen, pre, nsteps, run, alu, m, pins, pinop, r0>>

\* the tick for the high byte of the vector returns; PC is assembled
reset_tick2 ==
    /\ mpc = "V2"
    /\ \E r \in TickReturns :
          /\ mlog' = Append(mlog, [out |-> reset_pins2, in |-> r])
          /\ m' = reset_pc(m, M6502_GET_DATA(mlog[1].in), M6502_GET_DATA(r))
    /\ mpc' = "done"
    /\ UNCHANGED <<cpu, pc, op, ret, seen, pre, nsteps, run, alu, pins, pinop, r0>>

(***************************************************************************)
(* The pin macros applied by a host to a pin value of its own.             *)
(***************************************************************************)
\* addresses and data bytes the host packs
AddrArgs == {0, 1, 255, 256, 32768, 65532, 65535}
DataArgs == {0, 1, 15, 128, 255}

\* control values made of RW, IRQ, NMI
CtrlArgs == SUBSET (M6502_RW \cup M6502_IRQ \cup M6502_NMI)

\* pin values the host starts from: no pin, every pin, a packed value
InitPins == {{}, U64, M6502_MAKE_PINS(M6502_RW, 4660, 86)}

NoPinOp == [fn |-> "none", ctrl |-> {}, addr |-> 0, data |-> 0, old |-> {}]

\* the host packs a pin value once, then edits its fields
make_pins ==
    /\ pinop = NoPinOp
    /\ \E c \in CtrlArgs, a \in AddrArgs, d \in DataArgs :
        /\ pins' = M6502_MAKE_PINS(c, a, d)
        /\ pinop' = [fn |-> "make", ctrl |-> c, addr |-> a, data |-> d, old |-> pins]
        /\ UNCHANGED <<cpu, pc, op, ret, seen, pre, nsteps, run, alu, m, mpc, mlog, r0>>

set_addr ==
    \E a \in AddrArgs :
        /\ pins' = M6502_SET_ADDR(pins, a)
        /\ pinop' = [fn |-> "set_addr", ctrl |-> {}, addr |-> a, data |-> 0, old |-> pins]
        /\ UNCHANGED <<cpu, pc, op, ret, seen, pre, nsteps, run, alu, m, mpc, mlog, r0>>

set_data ==
    \E d \in DataArgs :
        /\ pins' = M6502_SET_DATA(pins, d)
        /\ pinop' = [fn |-> "set_data", ctrl |-> {}, addr |-> 0, data |-> d, old |-> pins]
        /\ UNCHANGED <<cpu, pc, op, ret, seen, pre, nsteps, run, alu, m, mpc, mlog, r0>>

(***************************************************************************)
(* The Z80 ALU helpers.  'int res' is held as a TLA+ integer; where the    *)
(* macros apply &, ^ and >> to it, it is read in two's complement.  The    *)
(* macros look at bits 0..8 of res only, so 16 bits of it are kept.        *)
(***************************************************************************)
\* two's complement of an int, low 16 bits
TwosC(x) == x % 65536

IntAnd(a, b) == BitAnd(TwosC(a), TwosC(b))
IntOr(a, b) == BitOr(TwosC(a), TwosC(b))
IntXor(a, b) == BitXor(TwosC(a), TwosC(b))

\* x >> k on an int (arithmetic shift)
IntShr(x, k) == x \div (2 ^ k)

\* _SZ(val): ((val&0xFF)?(val&Z80_SF):Z80_ZF)
SZ(val) == IF IntAnd(val, 255) # 0 THEN IntAnd(val, Z80_SF) ELSE Z80_ZF

\* _SZYXCH(acc,val,res)
SZYXCH(acc, val, res) ==
    IntOr(IntOr(SZ(res), IntAnd(res, Z80_YF + Z80_XF)),
          IntOr(IntAnd(IntShr(res, 8), Z80_CF),
                IntAnd(IntXor(IntXor(acc, val), res), Z80_HF)))

\* mutant of ADD_FLAGS: the overflow term of _SUB_FLAGS
ADD_FLAGS_subov(acc, val, res) ==
    IntOr(SZYXCH(acc, val, res),
          IntAnd(IntShr(IntAnd(IntXor(val, acc), IntXor(res, acc)), 5), Z80_VF))

\* _ADD_FLAGS(acc,val,res)
ADD_FLAGS(acc, val, res) ==
    IntOr(SZYXCH(acc, val, res),
          IntAnd(IntShr(IntAnd(IntXor(IntXor(val, acc), 128), IntXor(val, res)), 5),
                 Z80_VF))

\* _SUB_FLAGS(acc,val,res)
SUB_FLAGS(acc, val, res) ==
    IntOr(IntOr(Z80_NF, SZYXCH(acc, val, res)),
          IntAnd(IntShr(IntAnd(IntXor(val, acc), IntXor(res, acc)), 5), Z80_VF))

\* mutant of CP_FLAGS: YF and XF taken from the result
CP_FLAGS_res(acc, val, res) == SUB_FLAGS(acc, val, res)

\* _CP_FLAGS(acc,val,res)
CP_FLAGS(acc, val, res) ==
    IntOr(IntOr(Z80_NF,
                IntOr(IntOr(SZ(res), IntAnd(val, Z80_YF + Z80_XF)),
                      IntOr(IntAnd(IntShr(res, 8), Z80_CF),
                            IntAnd(IntXor(IntXor(acc, val), res), Z80_HF)))),
          IntAnd(IntShr(IntAnd(IntXor(val, acc), IntXor(res, acc)), 5), Z80_VF))

\* cpu->F = flags; cpu->A = (uint8_t) res
SetFA(c, flags, a) == [c EXCEPT !.r8[IdxF] = flags % 256, !.r8[IdxA] = a % 256]

add8(c, val) ==
    LET res == c.r8[IdxA] + val
    IN  SetFA(c, ADD_FLAGS(c.r8[IdxA], val, res), res)

\* mutant of adc8: the carry flag is not added
adc8_nocarry(c, val) == add8(c, val)

adc8(c, val) ==
    LET res == c.r8[IdxA] + val + BitAnd(c.r8[IdxF], Z80_CF)
    IN  SetFA(c, ADD_FLAGS(c.r8[IdxA], val, res), res)

sub8(c, val) ==
    LET res == c.r8[IdxA] - val
    IN  SetFA(c, SUB_FLAGS(c.r8[IdxA], val, res), res)

sbc8(c, val) ==
    LET res == c.r8[IdxA] - val - BitAnd(c.r8[IdxF], Z80_CF)
    IN  SetFA(c, SUB_FLAGS(c.r8[IdxA], val, res), res)

\* mutant of cp8: the difference is stored in A, as _z80_sub8 does
cp8_stores(c, val) == sub8(c, val)

cp8(c, val) ==
    LET res == c.r8[IdxA] - val
    IN  SetFA(c, CP_FLAGS(c.r8[IdxA], val, res), c.r8[IdxA])

\* flag bytes the helpers are entered with: carry alone, all but carry
AluFlagsIn == {1, 254}

AluCpus ==
    {[z80_init EXCEPT !.r8[IdxA] = a, !.r8[IdxF] = f] : a \in Byte, f \in AluFlagsIn}

\* each helper is applied once, to the struct the behaviour starts from
z80_add8 ==
    /\ alu = NoAlu
    /\ \E val \in Byte :
          /\ cpu' = add8(cpu, val)
          /\ alu' = [fn |-> "add8", val |-> val]
    /\ UNCHANGED <<pc, op, ret, seen, pre, nsteps, run, m, mpc, mlog, pins, pinop, r0>>

z80_adc8 ==
    /\ alu = NoAlu
    /\ \E val \in Byte :
          /\ cpu' = adc8(cpu, val)
          /\ alu' = [fn |-> "adc8", val |-> val]
    /\ UNCHANGED <<pc, op, ret, seen, pre, nsteps, run, m, mpc, mlog, pins, pinop, r0>>

z80_sub8 ==
    /\ alu = NoAlu
    /\ \E val \in Byte :
          /\ cpu' = sub8(cpu, val)
          /\ alu' = [fn |-> "sub8", val |-> val]
    /\ UNCHANGED <<pc, op, ret, seen, pre, nsteps, run, m, mpc, mlog, pins, pinop, r0>>

z80_sbc8 ==
    /\ alu = NoAlu
    /\ \E val \in Byte :
          /\ cpu' = sbc8(cpu, val)
          /\ alu' = [fn |-> "sbc8", val |-> val]
    /\ UNCHANGED <<pc, op, ret, seen, pre, nsteps, run, m, mpc, mlog, pins, pinop, r0>>

z80_cp8 ==
    /\ alu = NoAlu
    /\ \E val \in Byte :
          /\ cpu' = cp8(cpu, val)
          /\ alu' = [fn |-> "cp8", val |-> val]
    /\ UNCHANGED <<pc, op, ret, seen, pre, nsteps, run, m, mpc, mlog, pins, pinop, r0>>

(***************************************************************************)
(* Specifications.                                                         *)
(***************************************************************************)
M6502Idle ==
    /\ mpc = "idle"
    /\ mlog = << >>
    /\ pinop = NoPinOp

\* the Z80 core stepped by a host
Init ==
    /\ cpu \in InitCpus
    /\ pre = Snapshot(cpu)
    /\ Z80Idle
    /\ m = m6502_init
    /\ pins = {}
    /\ M6502Idle

Next ==
    \/ z80_step
    \/ fetch_tick1 \/ fetch_tick2 \/ fetch_tick3 \/ fetch_tick4
    \/ read_tick1 \/ read_tick2 \/ read_tick3
    \/ write_tick1 \/ write_tick2 \/ write_tick3
    \/ z80_on \/ z80_off

Spec == Init /\ [][Next]_vars

\* the Z80 run driver and the control pin functions
NextRun == z80_run \/ z80_on \/ z80_off

SpecRun == Init /\ [][NextRun]_vars

\* the Z80 ALU helpers, each applied once to every accumulator and operand
InitAlu ==
    /\ cpu \in AluCpus
    /\ pre = Snapshot(cpu)
    /\ Z80Idle
    /\ m = m6502_init
    /\ pins = {}
    /\ M6502Idle

NextAlu == z80_add8 \/ z80_adc8 \/ z80_sub8 \/ z80_sbc8 \/ z80_cp8

SpecAlu == InitAlu /\ [][NextAlu]_vars

\* m6502_reset on a fresh or a used M6502
InitReset ==
    /\ cpu = z80_init
    /\ pre = Snapshot(cpu)
    /\ Z80Idle
    /\ m \in InitM6502s
    /\ pins = {}
    /\ M6502Idle

NextReset == m6502_reset \/ reset_tick1 \/ reset_tick2

SpecReset == InitReset /\ [][NextReset]_vars

\* the M6502 pin macros
InitPinMacros ==
    /\ cpu = z80_init
    /\ pre = Snapshot(cpu)
    /\ Z80Idle
    /\ m = m6502_init
    /\ pins \in InitPins
    /\ M6502Idle

NextPins == make_pins \/ set_addr \/ set_data

SpecPins == InitPinMacros /\ [][NextPins]_vars

(***************************************************************************)
(* Properties.                                                             *)
(***************************************************************************)
\* a z80_step has returned
Stepped == pc = "idle" /\ nsteps > 0

\* the r8 index of the register a 3-bit register code names:
\* 0..7 = B, C, D, E, H, L, -, A
CodeReg(code) ==
    CASE code = 0 -> IdxB [] code = 1 -> IdxC [] code = 2 -> IdxD
      [] code = 3 -> IdxE [] code = 4 -> IdxH [] code = 5 -> IdxL
      [] code = 7 -> IdxA [] OTHER -> IdxF

\* the fields a step leaves alone whatever the opcode: the alternate bank,
\* WZ, IX, IY, I, SP, im, imm1, imm2
SameSpecials(c, d) ==
    /\ c.BC_ = d.BC_ /\ c.DE_ = d.DE_ /\ c.HL_ = d.HL_ /\ c.AF_ = d.AF_
    /\ c.WZ = d.WZ /\ c.WZ_ = d.WZ_ /\ c.IX = d.IX /\ c.IY = d.IY
    /\ c.I = d.I /\ c.SP = d.SP
    /\ c.im = d.im /\ c.imm1 = d.imm1 /\ c.imm2 = d.imm2

\* R counted on by one in its low seven bits, bit 7 kept
RefreshNext(r) == 128 * (r \div 128) + (((r % 128) + 1) % 128)

\* what a NOP step does, but for R
NopFrame ==
    /\ ret = 4
    /\ cpu.PC = (pre.PC + 1) % 65536
    /\ cpu.r8 = pre.r8
    /\ SameSpecials(cpu, pre)

\* C1 (as amended): a z80_step that fetches opcode 0x00 returns 4, advances
\* PC by one, counts the low seven bits of R on by one (modulo 128) without
\* touching bit 7 of R, and leaves every other register unchanged.
C1_NopStep ==
    (Stepped /\ op = 0) => (NopFrame /\ cpu.R = RefreshNext(pre.R))

\* C1 (as stated): ... increments the refresh counter R by one ...
C1_NopStepIncrementsR ==
    (Stepped /\ op = 0) => (NopFrame /\ cpu.R = (pre.R + 1) % 256)

\* a NOP step taken with the low seven bits of R all set
C1_Witness ==
    Stepped /\ op = 0 /\ ret = 4 /\ pre.R = 127 /\ cpu.R = 0 /\ cpu.PC = pre.PC + 1

\* C2: a step on LD r,r' (01 yyy zzz, y # 6, z # 6) copies the source
\* register into the destination register, leaves every other byte of the
\* register file (the source and F among them) unchanged, returns 4 and
\* issues no tick after the four ticks of the opcode fetch.
C2_LdRegReg ==
    (Stepped /\ OpX(op) = 1 /\ OpY(op) # 6 /\ OpZ(op) # 6) =>
        /\ cpu.r8[CodeReg(OpY(op))] = pre.r8[CodeReg(OpZ(op))]
        /\ \A i \in 0..7 : i # CodeReg(OpY(op)) => cpu.r8[i] = pre.r8[i]
        /\ ret = 4
        /\ Len(seen) = 4
        /\ \A k \in 1..Len(seen) : BitAnd(seen[k].ctrl, Z80_WR) = 0

\* LD B,C has run on registers B # C
C2_Witness ==
    /\ Stepped /\ op = 65
    /\ pre.r8[IdxB] # pre.r8[IdxC]
    /\ cpu.r8[IdxB] = pre.r8[IdxC]
    /\ cpu.r8[IdxC] = pre.r8[IdxC]

\* the data byte on pins 16..23 of a pin value
DataOf(p) == Val({i - 16 : i \in p \cap (16..23)})

\* the address on pins 0..15 of a pin value
AddrOf(p) == Val(p \cap (0..15))

\* C3: when m6502_reset has returned, S = 0xFD, P = 0x24 and PC = (h << 8) | l
\* with l and h the data bytes the callback returned to the first and the
\* second tick call; exactly two tick calls were made, the first with
\* address 0xFFFC, the second with address 0xFFFD, both with RW set.
C3_Reset ==
    mpc = "done" =>
        /\ m.S = 253
        /\ m.P = 36
        /\ Len(mlog) = 2
        /\ AddrOf(mlog[1].out) = 65532 /\ 24 \in mlog[1].out
        /\ AddrOf(mlog[2].out) = 65533 /\ 24 \in mlog[2].out
        /\ m.PC = 256 * DataOf(mlog[2].in) + DataOf(mlog[1].in)

\* a reset that read the vector 0x0200 (low byte 0x00, high byte 0x02)
C3_Witness ==
    /\ mpc = "done"
    /\ DataOf(mlog[1].in) = 0 /\ DataOf(mlog[2].in) = 2
    /\ m.PC = 512

\* C4: the tick counter equals the number of callback invocations made so
\* far in the step, and the value z80_step returns is the number of
\* callback invocations of that step.
C4_TicksAreCallbacks ==
    nsteps > 0 =>
        /\ cpu.ticks = Len(seen)
        /\ pc = "idle" => ret = Len(seen)

\* a second step that took seven ticks, entered with the ticks of the first
C4_Witness ==
    /\ Stepped /\ nsteps >= 2
    /\ ret = 7 /\ Len(seen) = 7

\* length in bytes of the unprefixed instruction with opcode o
InstrLen(o) ==
    LET x == OpX(o)
        y == OpY(o)
        z == OpZ(o)
    IN  IF x = 0 THEN
            (CASE z = 0 -> (IF y >= 2 THEN 2 ELSE 1)
               [] z = 1 -> (IF y % 2 = 0 THEN 3 ELSE 1)
               [] z = 2 -> (IF y >= 4 THEN 3 ELSE 1)
               [] z = 6 -> 2
               [] OTHER -> 1)
        ELSE IF x = 3 THEN
            (CASE z = 2 -> 3
               [] z = 3 -> (IF y = 0 THEN 3 ELSE IF y <= 3 THEN 2 ELSE 1)
               [] z = 4 -> 3
               [] z = 5 -> (IF y = 1 THEN 3 ELSE IF y % 2 = 1 THEN 2 ELSE 1)
               [] z = 6 -> 2
               [] OTHER -> 1)
        ELSE 1

\* opcodes after which the next instruction is the one that follows in
\* memory: all but jumps, calls, returns, restarts, HALT and the prefixes
FallsThrough(o) ==
    /\ ~(OpX(o) = 0 /\ OpZ(o) = 0 /\ OpY(o) >= 2)
    /\ ~(OpX(o) = 3 /\ OpZ(o) \in {0, 2, 4, 7})
    /\ ~(OpX(o) = 3 /\ OpZ(o) = 1 /\ OpY(o) \in {1, 5})
    /\ ~(OpX(o) = 3 /\ OpZ(o) = 3 /\ OpY(o) \in {0, 1})
    /\ ~(OpX(o) = 3 /\ OpZ(o) = 5 /\ OpY(o) % 2 = 1)
    /\ o # 118

\* C5: when z80_step returns, PC has advanced past the opcode and all the
\* operand bytes of the instruction (stated for the instructions that fall
\* through to the next one in memory).
C5_PcPastOperands ==
    (Stepped /\ FallsThrough(op)) => cpu.PC = (pre.PC + InstrLen(op)) % 65536

\* C6: z80_run(cpu, N) with N > 0 returns at least N.
C6_RunReturnsAtLeastBudget ==
    run.req > 0 => run.ret >= run.req

\* C7: after _z80_add8 (carry-in 0) and _z80_adc8 (carry-in F & CF),
\* A = (a + b + c) mod 256 and CF is bit 8 of a + b + c.
C7_AddResultCarry ==
    alu.fn \in {"add8", "adc8"} =>
        LET a == pre.r8[IdxA]
            c == IF alu.fn = "adc8" THEN pre.r8[IdxF] % 2 ELSE 0
            sum == a + alu.val + c
        IN  /\ cpu.r8[IdxA] = sum % 256
            /\ cpu.r8[IdxF] % 2 = (sum \div 256) % 2

\* 0xFF + 0xFF + carry: the carry-in reaches the result and a carry comes out
C7_Witness ==
    /\ alu.fn = "adc8" /\ alu.val = 255
    /\ pre.r8[IdxA] = 255 /\ pre.r8[IdxF] % 2 = 1
    /\ cpu.r8[IdxA] = 255 /\ cpu.r8[IdxF] % 2 = 1

\* bit k (0..7) of a flag byte
FlagBit(f, k) == (f \div (2 ^ k)) % 2

\* C8: after _z80_sub8, _z80_cp8 (borrow-in 0) and _z80_sbc8 (borrow-in
\* F & CF), with d = a - b - c: CF is set iff d < 0, ZF iff d mod 256 = 0,
\* SF is bit 7 of d mod 256, NF is set; sub8 and sbc8 store d mod 256 in A,
\* cp8 leaves A as it was.
C8_SubFlags ==
    alu.fn \in {"sub8", "sbc8", "cp8"} =>
        LET a == pre.r8[IdxA]
            c == IF alu.fn = "sbc8" THEN pre.r8[IdxF] % 2 ELSE 0
            d == a - alu.val - c
            f == cpu.r8[IdxF]
        IN  /\ (FlagBit(f, 0) = 1) <=> (d < 0)
            /\ (FlagBit(f, 6) = 1) <=> (d % 256 = 0)
            /\ FlagBit(f, 7) = (d % 256) \div 128
            /\ (FlagBit(f, 6) = 1) => (FlagBit(f, 7) = 0)
            /\ FlagBit(f, 1) = 1
            /\ cpu.r8[IdxA] = (IF alu.fn = "cp8" THEN a ELSE d % 256)

\* a compare that borrows: 0x10 - 0x20
C8_Witness ==
    /\ alu.fn = "cp8" /\ alu.val = 32 /\ pre.r8[IdxA] = 16
    /\ cpu.r8[IdxA] = 16
    /\ FlagBit(cpu.r8[IdxF], 0) = 1 /\ FlagBit(cpu.r8[IdxF], 7) = 1

\* C9: M6502_GET_ADDR and M6502_GET_DATA applied to M6502_MAKE_PINS(c, a, d)
\* give a and d, and the pins above the data pins are c; M6502_SET_ADDR
\* changes no pin outside 0..15 and M6502_SET_DATA no pin outside 16..23.
C9_PinFields ==
    /\ pinop.fn = "make" =>
        /\ M6502_GET_ADDR(pins) = pinop.addr
        /\ M6502_GET_DATA(pins) = pinop.data
        /\ pins \ (0..23) = pinop.ctrl
    /\ pinop.fn = "set_addr" => pins \ (0..15) = pinop.old \ (0..15)
    /\ pinop.fn = "set_data" => pins \ (16..23) = pinop.old \ (16..23)

\* a data byte set into a pin value that holds an address, control pins
\* and another data byte
C9_Witness ==
    /\ pinop.fn = "set_data"
    /\ AddrOf(pinop.old) = 65532 /\ 24 \in pinop.old
    /\ DataOf(pinop.old) = 255 /\ pinop.data = 1
    /\ DataOf(pins) = 1 /\ AddrOf(pins) = 65532 /\ 24 \in pins

\* NMI, or INT with the interrupt-enable latch set, was active when the
\* step was entered
InterruptPending(c) ==
    \/ BitAnd(c.CTRL, Z80_NMI) # 0
    \/ (BitAnd(c.CTRL, Z80_INT) # 0 /\ c.imm1)

\* C10: a step entered with an interrupt pending acknowledges it: the return
\* address is pushed (SP goes down by two, with a write cycle) and PC is
\* redirected; a step entered with none pending pushes nothing.
C10_InterruptAcknowledged ==
    Stepped =>
        IF InterruptPending(pre)
        THEN /\ cpu.SP = (pre.SP - 2) % 65536
             /\ \E k \in 1..Len(seen) : BitAnd(seen[k].ctrl, Z80_WR) # 0
        ELSE cpu.SP = pre.SP

\* the machine-cycle strobes among the control pins the callback saw
Strobes(ctrl) == BitAnd(ctrl, Z80_M1 + Z80_MREQ + Z80_RD + Z80_WR + Z80_RFSH)

\* the ticks of the opcode fetch
FetchPcs == {"F1", "F2", "F3", "F4"}

\* C11: every opcode fetch is exactly four ticks.  At T1 M1 is active and
\* ADDR is PC as it was before the increment; at T2 M1, MREQ and RD are
\* active and ADDR is unchanged; at T3 RFSH is active, M1, MREQ and RD are
\* inactive and ADDR is I (high byte) with the already counted-on R (low
\* byte); at T4 RFSH and MREQ are active; after T4 RFSH and MREQ are cleared
\* and the opcode decoded is the DATA value present after T4, and no opcode
\* is decoded before.
C11_OpcodeFetch ==
    nsteps > 0 =>
        /\ pc \notin FetchPcs => Len(seen) >= 4
        /\ pc \in FetchPcs => (Len(seen) < 4 /\ op = NoOp)
        /\ Len(seen) >= 1 =>
              /\ Strobes(seen[1].ctrl) = Z80_M1
              /\ seen[1].addr = pre.PC
        /\ Len(seen) >= 2 =>
              /\ Strobes(seen[2].ctrl) = Z80_M1 + Z80_MREQ + Z80_RD
              /\ seen[2].addr = seen[1].addr
        /\ Len(seen) >= 3 =>
              /\ Strobes(seen[3].ctrl) = Z80_RFSH
              /\ seen[3].addr = pre.I * 256 + RefreshNext(pre.R)
        /\ Len(seen) >= 4 =>
              /\ Strobes(seen[4].ctrl) = Z80_RFSH + Z80_MREQ
              /\ op \in Byte
        /\ Len(seen) = 4 =>
              /\ BitAnd(cpu.CTRL, Z80_RFSH + Z80_MREQ) = 0
              /\ op = cpu.DATA

\* a fetch at PC 0x0100 with I = 0x3C and the low seven bits of R all set:
\* the refresh address is 0x3C00, and the byte decoded is the one on DATA
C11_Witness ==
    /\ nsteps > 0 /\ Len(seen) = 4
    /\ pre.PC = 256 /\ pre.I = 60 /\ pre.R = 127
    /\ seen[1].addr = 256 /\ seen[2].addr = 256 /\ seen[3].addr = 15360
    /\ Strobes(seen[3].ctrl) = Z80_RFSH
    /\ op = 165 /\ cpu.DATA = 165

\* cpu->HL as it was when the step was entered
PreHL == pre.r8[IdxH] * 256 + pre.r8[IdxL]

\* C12: a step on LD r,(HL) (01 yyy 110, y # 6) returns 7 and does, after
\* the fetch, one three-tick read cycle: ADDR = H*256+L on all three ticks,
\* MREQ|RD active on the second tick only; register y receives the DATA
\* value present after the third tick; no other general register and not F
\* is modified.
C12_LdRegFromHL ==
    (Stepped /\ OpX(op) = 1 /\ OpY(op) # 6 /\ OpZ(op) = 6) =>
        /\ ret = 7
        /\ Len(seen) = 7
        /\ \A k \in 5..7 : seen[k].addr = PreHL
        /\ Strobes(seen[5].ctrl) = 0
        /\ Strobes(seen[6].ctrl) = Z80_MREQ + Z80_RD
        /\ Strobes(seen[7].ctrl) = 0
        /\ cpu.r8[CodeReg(OpY(op))] = cpu.DATA
        /\ \A i \in 0..7 : i # CodeReg(OpY(op)) => cpu.r8[i] = pre.r8[i]

\* LD H,(HL) from HL = 0x5566: the read is at 0x5566, H receives the byte
\* and L is kept
C12_Witness ==
    /\ Stepped /\ op = 102
    /\ pre.r8[IdxH] = 85 /\ pre.r8[IdxL] = 102
    /\ Len(seen) = 7 /\ seen[5].addr = 21862 /\ seen[7].addr = 21862
    /\ cpu.DATA = 165 /\ cpu.r8[IdxH] = 165 /\ cpu.r8[IdxL] = 102

\* C13: a step on LD (HL),r (01 110 zzz, z # 6) returns 7 and does, after
\* the fetch, one three-tick write cycle: ADDR = H*256+L on all three
\* ticks; at the second tick the callback sees MREQ|WR active and register
\* z on DATA; RD is never active in the write cycle; MREQ|WR are cleared
\* before the third tick; no CPU register other than PC and R changes.
C13_LdHLFromReg ==
    /\ (nsteps > 0 /\ pc = "W2") =>
          /\ OpX(op) = 1 /\ OpY(op) = 6 /\ OpZ(op) # 6
          /\ Len(seen) = 5
          /\ cpu.ADDR = PreHL
          /\ Strobes(cpu.CTRL) = Z80_MREQ + Z80_WR
          /\ cpu.DATA = pre.r8[CodeReg(OpZ(op))]
    /\ (Stepped /\ OpX(op) = 1 /\ OpY(op) = 6 /\ OpZ(op) # 6) =>
          /\ ret = 7
          /\ Len(seen) = 7
          /\ \A k \in 5..7 : seen[k].addr = PreHL
          /\ Strobes(seen[5].ctrl) = 0
          /\ Strobes(seen[6].ctrl) = Z80_MREQ + Z80_WR
          /\ Strobes(seen[7].ctrl) = 0
          /\ cpu.r8 = pre.r8
          /\ SameSpecials(cpu, pre)
          /\ cpu.PC = (pre.PC + 1) % 65536
          /\ cpu.R = RefreshNext(pre.R)

\* LD (HL),B with B = 0x11 and HL = 0x5566, at the second tick of the write
C13_Witness ==
    /\ pc = "W2" /\ op = 112
    /\ pre.r8[IdxB] = 17 /\ pre.r8[IdxH] = 85 /\ pre.r8[IdxL] = 102
    /\ cpu.ADDR = 21862 /\ cpu.DATA = 17
    /\ BitAnd(cpu.CTRL, Z80_WR) = Z80_WR /\ BitAnd(cpu.CTRL, Z80_RD) = 0

\* C14: a step on LD r,n (00 yyy 110, y # 6) returns 7, reads the immediate
\* byte with one read cycle at the address that follows the opcode, stores
\* it in register y (0x3E loads A, never F), advances PC by exactly two and
\* leaves the flags and every other register unchanged.
C14_LdRegImm ==
    (Stepped /\ OpX(op) = 0 /\ OpZ(op) = 6 /\ OpY(op) # 6) =>
        /\ ret = 7
        /\ Len(seen) = 7
        /\ \A k \in 5..7 : seen[k].addr = (pre.PC + 1) % 65536
        /\ Strobes(seen[5].ctrl) = 0
        /\ Strobes(seen[6].ctrl) = Z80_MREQ + Z80_RD
        /\ Strobes(seen[7].ctrl) = 0
        /\ cpu.r8[CodeReg(OpY(op))] = cpu.DATA
        /\ \A i \in 0..7 : i # CodeReg(OpY(op)) => cpu.r8[i] = pre.r8[i]
        /\ cpu.PC = (pre.PC + 2) % 65536
        /\ SameSpecials(cpu, pre)

\* LD A,n fetched at 0xFFFF: the immediate is read at 0x0000, A receives it,
\* F keeps its value and PC is 0x0001
C14_Witness ==
    /\ Stepped /\ op = 62
    /\ pre.PC = 65535 /\ pre.r8[IdxA] = 255 /\ pre.r8[IdxF] = 1
    /\ Len(seen) = 7 /\ seen[6].addr = 0
    /\ cpu.r8[IdxA] = 90 /\ cpu.r8[IdxF] = 1 /\ cpu.PC = 1

\* C15: opcode 0x76 is taken as HALT before the LD (HL),r handling: the step
\* issues the four ticks of the fetch and no other, never activates WR,
\* leaves on DATA the byte that was there after T4, and changes no general
\* register.
C15_HaltNoMemoryCycle ==
    (nsteps > 0 /\ op = 118) =>
        /\ pc = "idle"
        /\ ret = 4
        /\ Len(seen) = 4
        /\ \A k \in 1..Len(seen) : BitAnd(seen[k].ctrl, Z80_WR) = 0
        /\ BitAnd(cpu.CTRL, Z80_WR + Z80_RD + Z80_MREQ) = 0
        /\ cpu.ADDR = pre.I * 256 + cpu.R
        /\ cpu.DATA = op
        /\ cpu.r8 = pre.r8

\* a step on 0x76 with F = 0xD7 (the register code 6 would select through
\* r8[6^1]) and HL = 0x5566
C15_Witness ==
    /\ Stepped /\ op = 118 /\ ret = 4
    /\ pre.r8[IdxF] = 215 /\ pre.r8[IdxH] = 85 /\ pre.r8[IdxL] = 102
    /\ cpu.r8 = pre.r8 /\ cpu.DATA = 118 /\ cpu.ADDR # 21862

\* an 8-bit value read as a signed number
Signed8(x) == IF x >= 128 THEN x - 256 ELSE x

\* bit 7 of an 8-bit value
Bit7(x) == x \div 128

\* C16: with a the accumulator and F & CF the carry the helper was entered
\* with, b the operand and c the carry or borrow taken in (F & CF for adc8
\* and sbc8, 0 otherwise): after add8 and adc8 VF is set iff a and b have
\* the same bit 7 and bit 7 of the 8-bit result differs from it; after
\* sub8, sbc8 and cp8 VF is set iff a and b differ in bit 7 and bit 7 of
\* the 8-bit result differs from that of a; in both cases VF is set iff the
\* signed result lies outside -128..127.
C16_Overflow ==
    alu.fn # "none" =>
        LET a == pre.r8[IdxA]
            b == alu.val
            c == IF alu.fn \in {"adc8", "sbc8"} THEN pre.r8[IdxF] % 2 ELSE 0
            adds == alu.fn \in {"add8", "adc8"}
            res == IF adds THEN (a + b + c) % 256 ELSE (a - b - c) % 256
            sres == IF adds THEN Signed8(a) + Signed8(b) + c
                    ELSE Signed8(a) - Signed8(b) - c
            vf == FlagBit(cpu.r8[IdxF], 2) = 1
        IN  /\ alu.fn # "cp8" => cpu.r8[IdxA] = res
            /\ adds => (vf <=> (Bit7(a) = Bit7(b) /\ Bit7(res) # Bit7(a)))
            /\ ~adds => (vf <=> (Bit7(a) # Bit7(b) /\ Bit7(res) # Bit7(a)))
            /\ vf <=> (sres < -128 \/ sres > 127)

\* 0x80 - 0x00 - borrow: only the borrow takes the result out of range
C16_Witness ==
    /\ alu.fn = "sbc8" /\ alu.val = 0
    /\ pre.r8[IdxA] = 128 /\ pre.r8[IdxF] % 2 = 1
    /\ cpu.r8[IdxA] = 127
    /\ FlagBit(cpu.r8[IdxF], 2) = 1

\* C17: after cp8 with operand b, XF (bit 3) and YF (bit 5) are bits 3 and 5
\* of b, not of the difference; after add8, adc8, sub8 and sbc8 they are
\* bits 3 and 5 of the 8-bit result stored in A.
C17_UndocumentedFlags ==
    alu.fn # "none" =>
        LET from == IF alu.fn = "cp8" THEN alu.val ELSE cpu.r8[IdxA]
        IN  /\ FlagBit(cpu.r8[IdxF], 3) = FlagBit(from, 3)
            /\ FlagBit(cpu.r8[IdxF], 5) = FlagBit(from, 5)

\* cp8 of 0x30 with 0x08: the difference 0x28 has bit 5 set and bit 3 set,
\* the operand has bit 3 alone
C17_Witness ==
    /\ alu.fn = "cp8" /\ alu.val = 8 /\ pre.r8[IdxA] = 48
    /\ cpu.r8[IdxA] = 48
    /\ FlagBit(cpu.r8[IdxF], 3) = 1 /\ FlagBit(cpu.r8[IdxF], 5) = 0

\* C18: each z80_step changes R exactly once (between the T2 and the T3
\* tick of its fetch): bit 7 is kept and the low seven bits count on by one
\* modulo 128, so after n steps from R = r0 the register holds
\* (r0 & 0x80) | ((r0 + n) & 0x7F); I is never changed by a step.
C18_RefreshCounter ==
    /\ cpu.I = pre.I
    /\ nsteps > 0 =>
          IF pc \in {"F1", "F2"} THEN cpu.R = pre.R
          ELSE cpu.R = RefreshNext(pre.R)
    /\ pc = "idle" => cpu.R = 128 * (r0 \div 128) + ((r0 + nsteps) % 128)
    /\ pc # "idle" => pre.R = 128 * (r0 \div 128) + ((r0 + nsteps - 1) % 128)

\* two steps from R = 0xFF: the low seven bits wrapped, bit 7 is still set
C18_Witness ==
    /\ Stepped /\ nsteps = 2
    /\ r0 = 255 /\ pre.R = 128 /\ cpu.R = 129
    /\ cpu.I = 255

\* the control pins the claim says a step leaves to the host, as set in ctrl
HostCtl(ctrl) ==
    BitAnd(ctrl, Z80_HALT + Z80_WAIT + Z80_INT + Z80_NMI + Z80_RESET
                 + Z80_BUSREQ + Z80_BUSACK)

\* C19: no part of a z80_step (its entry, the code between two ticks, its
\* return) sets or clears HALT, WAIT, INT, NMI, RESET, BUSREQ or BUSACK, for
\* any opcode, and M1, MREQ, RD, WR and RFSH are all inactive when the step
\* returns.
C19_HostPinsKept ==
    [][(pc # "idle" \/ pc' # "idle") =>
          /\ HostCtl(cpu'.CTRL) = HostCtl(cpu.CTRL)
          /\ pc' = "idle" => Strobes(cpu'.CTRL) = 0]_vars

\* a write step taken with NMI set by the host: NMI is seen next to MREQ|WR
\* at the sixth tick and is all that is set when the step has returned
C19_Witness ==
    /\ Stepped /\ Len(seen) = 7
    /\ seen[6].ctrl = Z80_NMI + Z80_MREQ + Z80_WR
    /\ pre.CTRL = Z80_NMI /\ cpu.CTRL = Z80_NMI

\* pin p is active in the control pins the callback is shown
Active(p) == BitAnd(cpu.CTRL, p) # 0

\* C20: at every tick callback invocation of a z80_step, for any opcode
\* sequence and a host that sets no bus strobe itself: RD and WR are never
\* active together, RD or WR is active only while MREQ is active, M1 is
\* never active together with RFSH or WR, and RFSH is never active together
\* with RD or WR.
C20_StrobesConsistent ==
    pc # "idle" =>
        /\ ~(Active(Z80_RD) /\ Active(Z80_WR))
        /\ (Active(Z80_RD) \/ Active(Z80_WR)) => Active(Z80_MREQ)
        /\ ~(Active(Z80_M1) /\ (Active(Z80_RFSH) \/ Active(Z80_WR)))
        /\ ~(Active(Z80_RFSH) /\ (Active(Z80_RD) \/ Active(Z80_WR)))

\* the second tick of a read cycle in the second step, with host pins set:
\* MREQ and RD are the only strobes active
C20_Witness ==
    /\ pc = "R2" /\ nsteps = 2
    /\ Active(Z80_RD) /\ Active(Z80_MREQ) /\ Active(Z80_INT)
    /\ Strobes(cpu.CTRL) = Z80_MREQ + Z80_RD

====
